---- MODULE Spec2Model ----
(***************************************************************************)
(* findDistribution: the team-scoped, faceted, paginated list query over   *)
(* distribution statements.  One call is modelled from invocation to its   *)
(* settled result, with the team lookup, the composition of the where      *)
(* clause, and the two storage operations (findMany, count) dispatched     *)
(* through Promise.all.                                                    *)
(***************************************************************************)
EXTENDS Integers, Sequences, FiniteSets, TLC

VARIABLES store, req, pc, team, now,
          fetchArgs, countArgs, fetchSt, countSt,
          fetchIssued, countIssued, fetchVal, countVal,
          settled, result, err

vars == <<store, req, pc, team, now,
          fetchArgs, countArgs, fetchSt, countSt,
          fetchIssued, countIssued, fetchVal, countVal,
          settled, result, err>>

(* ---------------------------------------------------------------------- *)
(* Bounds of the explored inputs                                          *)
(* ---------------------------------------------------------------------- *)
MaxPage == 2
MaxPerPage == 2

(* ---------------------------------------------------------------------- *)
(* Optional values: an absent (undefined / null) value is the empty tuple *)
(* ---------------------------------------------------------------------- *)
None == <<>>
Some(v) == <<v>>
IsSome(o) == o # <<>>
Default(o, d) == IF o = <<>> THEN d ELSE o[1]

DefaultPage == 1
DefaultPerPage == 10
HoursPerDay == 24

Max(a, b) == IF a >= b THEN a ELSE b
Min(a, b) == IF a <= b THEN a ELSE b

(* ---------------------------------------------------------------------- *)
(* Text: strings are sequences of one-character strings                   *)
(* ---------------------------------------------------------------------- *)
ToLowerChar(c) ==
  CASE c = "A" -> "a" [] c = "B" -> "b" [] c = "C" -> "c" [] c = "D" -> "d"
    [] c = "I" -> "i" [] c = "P" -> "p" [] c = "R" -> "r" [] c = "S" -> "s"
    [] c = "T" -> "t" [] c = "U" -> "u" [] c = "X" -> "x" [] c = "Z" -> "z"
    [] OTHER -> c

ToLower(s) == [i \in 1..Len(s) |-> ToLowerChar(s[i])]

\* substring test, as `contains` does
Contains(s, q) ==
  \E i \in 0..(Len(s) - Len(q)) : \A j \in 1..Len(q) : s[i + j] = q[j]

\* { field: { contains: query, mode: 'insensitive' } }; an undefined
\* `contains` leaves the field unconstrained
ContainsInsensitive(s, q) ==
  IF q = None THEN TRUE ELSE Contains(ToLower(s), ToLower(q[1]))

(* ---------------------------------------------------------------------- *)
(* parseInt(period.replace(/d$/, ''), 10)                                 *)
(* ---------------------------------------------------------------------- *)
IsDigit(c) == c \in {"0", "1", "2", "3", "4", "5", "6", "7", "8", "9"}

DigitVal(c) ==
  CASE c = "0" -> 0 [] c = "1" -> 1 [] c = "2" -> 2 [] c = "3" -> 3
    [] c = "4" -> 4 [] c = "5" -> 5 [] c = "6" -> 6 [] c = "7" -> 7
    [] c = "8" -> 8 [] c = "9" -> 9

\* period.replace(/d$/, ''): drops one trailing 'd'
StripTrailingD(s) ==
  IF Len(s) > 0 /\ s[Len(s)] = "d" THEN SubSeq(s, 1, Len(s) - 1) ELSE s

RECURSIVE SkipSpaces(_)
SkipSpaces(s) ==
  IF Len(s) > 0 /\ s[1] = " " THEN SkipSpaces(Tail(s)) ELSE s

RECURSIVE DigitPrefixLen(_)
DigitPrefixLen(s) ==
  IF Len(s) > 0 /\ IsDigit(s[1]) THEN 1 + DigitPrefixLen(Tail(s)) ELSE 0

RECURSIVE DigitsValue(_, _)
DigitsValue(s, n) ==
  IF n = 0 THEN 0 ELSE DigitsValue(s, n - 1) * 10 + DigitVal(s[n])

\* parseInt(s, 10): leading blanks, an optional sign, the longest run of
\* digits; NaN (None) when there is no digit
ParseInt(s) ==
  LET t    == SkipSpaces(s)
      neg  == Len(t) > 0 /\ t[1] = "-"
      sgn  == Len(t) > 0 /\ t[1] \in {"-", "+"}
      body == IF sgn THEN Tail(t) ELSE t
      n    == DigitPrefixLen(body)
  IN
  IF n = 0 THEN None
  ELSE Some(IF neg THEN 0 - DigitsValue(body, n) ELSE DigitsValue(body, n))

\* startOf('day')
StartOfDay(t) == t - (t % HoursPerDay)

\* variant: the lower bound is not truncated to the start of the day
StartOfPeriodNoTruncate(t, daysAgo) == t - daysAgo * HoursPerDay

\* DateTime.now().minus({ days: daysAgo }).startOf('day')
StartOfPeriod(t, daysAgo) == StartOfDay(t - daysAgo * HoursPerDay)

(* ---------------------------------------------------------------------- *)
(* The data the call reads: users, teams, distribution statements         *)
(* ---------------------------------------------------------------------- *)
UserIds == {1, 2}

UserEmail(u) ==
  CASE u = 1 -> "alice@lpm.com"
    [] u = 2 -> "bob@lpm.com"
    [] u = 3 -> "inbox@lpm.com"

\* team 10 has a team email and user 1 as its only member;
\* team 11 has no team email and users 1 and 2 as members
Teams ==
  << [id |-> 10, teamEmail |-> Some([email |-> "inbox@lpm.com"]), members |-> {1}],
     [id |-> 11, teamEmail |-> None, members |-> {1, 2}] >>

Now0 == 40 * HoursPerDay

Txt(a, b) == <<a, b>>

Stmt(id, userId, teamId, platforms, territories, createdAt, isrc, proyecto) ==
  [ id |-> id, userId |-> userId, teamId |-> teamId,
    user |-> [email |-> UserEmail(userId)],
    distributionStatementMusicPlatforms |-> platforms,
    distributionStatementTerritories |-> territories,
    createdAt |-> createdAt,
    proyecto |-> proyecto, isrc |-> isrc,
    marketingOwner |-> <<"b">>,
    nombreDistribucion |-> <<"d">>,
    numeroDeCatalogo |-> <<"C">>,
    tituloCatalogo |-> <<"t">>,
    tipoDeIngreso |-> <<"a">> ]

Catalogue ==
  << Stmt(1, 1, None,     {5},    {1},    Now0 - 1 * HoursPerDay + 12, Txt("U", "S"), Txt("p", "r")),
     Stmt(2, 1, Some(10), {6},    {},     Now0 - 7 * HoursPerDay + 10, Txt("u", "s"), Txt("P", "R")),
     Stmt(3, 3, None,     {},     {2},    Now0 - 7 * HoursPerDay - 1,  Txt("Z", "Z"), Txt("p", "r")),
     Stmt(4, 2, None,     {5, 7}, {1, 2}, Now0 - 20 * HoursPerDay,     Txt("U", "S"), Txt("t", "t")),
     Stmt(5, 2, Some(11), {7},    {1},    Now0 - 35 * HoursPerDay,     Txt("z", "z"), Txt("t", "t")),
     Stmt(6, 1, Some(11), {5},    {},     Now0 - 14 * HoursPerDay + 3, Txt("U", "S"), Txt("p", "r")),
     Stmt(7, 1, None,     {},     {},     Now0 - 14 * HoursPerDay - 2, Txt("z", "z"), Txt("U", "s")),
     Stmt(8, 1, None,     {6},    {2},    Now0 - 30 * HoursPerDay + 5, Txt("u", "S"), Txt("t", "t")),
     Stmt(9, 3, Some(10), {7},    {1},    Now0 - 3 * HoursPerDay + 1,  Txt("z", "z"), Txt("p", "r")) >>

Stores == { Catalogue }

Nows == { Now0 + 15 }

(* ---------------------------------------------------------------------- *)
(* The requests explored (FindReleaseOptions)                             *)
(* ---------------------------------------------------------------------- *)
\* page 1 is reached through the default
Pages == {None} \cup {Some(p) : p \in {-1, 0} \cup (2..MaxPage)}
PerPages == {None} \cup {Some(p) : p \in 1..MaxPerPage}
TeamIdArgs == {None, Some(10), Some(11)}
Periods ==
  { None, Some(<<>>), Some(<<"7", "d">>), Some(<<"1", "4", "d">>),
    Some(<<"3", "0", "d">>), Some(<<"3", "d">>), Some(<<"x", "d">>) }
PeriodEnum == { <<>>, <<"7", "d">>, <<"1", "4", "d">>, <<"3", "0", "d">> }
PlatformIdArgs == { None, Some(<<>>), Some(<<5, 6>>) }
TerritoryIdArgs == { None, Some(<<1>>) }
Queries == { None, Some(<<"u", "s">>) }
OrderBys == { None, Some([column |-> "createdAt", direction |-> "desc"]) }

\* a where input constrains some of userId, teamId, user.email; a key that
\* is absent is None, `teamId: null` is Some(None)
Cond(userId, teamId, email) ==
  [userId |-> userId, teamId |-> teamId, userEmail |-> email]

EmptyCond == Cond(None, None, None)

WhereArgs == { None, Some(Cond(Some(2), None, None)) }

Range(s) == { s[i] : i \in DOMAIN s }

(* ---------------------------------------------------------------------- *)
(* Composition of the where clause                                        *)
(* ---------------------------------------------------------------------- *)
SearchFields ==
  << "proyecto", "isrc", "marketingOwner", "nombreDistribucion",
     "numeroDeCatalogo", "tituloCatalogo", "proyecto", "tipoDeIngreso" >>

\* searchFilter: OR over the text fields of a case-insensitive contains
SearchFilter(query) ==
  [OR |-> [i \in 1..Len(SearchFields) |->
             [field |-> SearchFields[i], contains |-> query]]]

\* variant: the personal branch keeps the initial `OR: [{ userId }]`
TenantFilterNoNullTeam(userId, t) ==
  IF IsSome(t)
    THEN IF IsSome(t[1].teamEmail)
           THEN [OR |-> << Cond(None, Some(Some(t[1].id)), None),
                           Cond(None, None, Some(t[1].teamEmail[1].email)) >>]
           ELSE [OR |-> << Cond(None, Some(Some(t[1].id)), None) >>]
    ELSE [OR |-> << Cond(Some(userId), None, None) >>]

\* variant: the team branch also admits the requesting user's own records
TenantFilterWithOwner(userId, t) ==
  IF IsSome(t)
    THEN IF IsSome(t[1].teamEmail)
           THEN [OR |-> << Cond(None, Some(Some(t[1].id)), None),
                           Cond(None, None, Some(t[1].teamEmail[1].email)),
                           Cond(Some(userId), None, None) >>]
           ELSE [OR |-> << Cond(None, Some(Some(t[1].id)), None),
                           Cond(Some(userId), None, None) >>]
    ELSE [OR |-> << Cond(Some(userId), Some(None), None) >>]

\* Filter: the tenant predicate, by the resolved team (None when no teamId)
TenantFilter(userId, t) ==
  IF IsSome(t)
    THEN IF IsSome(t[1].teamEmail)
           THEN [OR |-> << Cond(None, Some(Some(t[1].id)), None),
                           Cond(None, None, Some(t[1].teamEmail[1].email)) >>]
           ELSE [OR |-> << Cond(None, Some(Some(t[1].id)), None) >>]
    ELSE [OR |-> << Cond(Some(userId), Some(None), None) >>]

\* variant: the length test is missing, an empty list constrains
FacetClauseEmptyConstrains(ids) ==
  IF IsSome(ids) THEN Some(Range(ids[1])) ELSE None

\* `if (platformIds && platformIds.length > 0)`: the `some ... in` clause
FacetClause(ids) ==
  IF IsSome(ids) /\ Len(ids[1]) > 0 THEN Some(Range(ids[1])) ELSE None

\* `if (period)`: the day count parsed from a non-empty period
DaysAgo(period) ==
  IF IsSome(period) /\ Len(period[1]) > 0
    THEN Some(ParseInt(StripTrailingD(period[1])))
    ELSE None

\* createdAt: { gte: startOfPeriod }
CreatedAtClause(period, t) ==
  LET d == DaysAgo(period) IN
  IF IsSome(d) /\ IsSome(d[1]) THEN Some(StartOfPeriod(t, d[1][1])) ELSE None

WhereClause(r, t, clock) ==
  [ AND |-> [search |-> SearchFilter(r.query),
             tenant |-> TenantFilter(r.userId, t),
             extra  |-> Default(r.where, EmptyCond)],
    distributionStatementMusicPlatforms |-> FacetClause(r.platformIds),
    distributionStatementTerritories |-> FacetClause(r.territoryIds),
    createdAt |-> CreatedAtClause(r.period, clock) ]

(* ---------------------------------------------------------------------- *)
(* Evaluation of a where clause by the storage layer                      *)
(* ---------------------------------------------------------------------- *)
MatchesCond(c, rec) ==
  /\ (IsSome(c.userId) => rec.userId = c.userId[1])
  /\ (IsSome(c.teamId) => rec.teamId = c.teamId[1])
  /\ (IsSome(c.userEmail) => rec.user.email = c.userEmail[1])

MatchesSearch(f, rec) ==
  \E i \in DOMAIN f.OR : ContainsInsensitive(rec[f.OR[i].field], f.OR[i].contains)

MatchesTenant(f, rec) == \E i \in DOMAIN f.OR : MatchesCond(f.OR[i], rec)

MatchesFacet(clause, assoc) ==
  IsSome(clause) => (assoc \cap clause[1] # {})

Matches(w, rec) ==
  /\ MatchesSearch(w.AND.search, rec)
  /\ MatchesTenant(w.AND.tenant, rec)
  /\ MatchesCond(w.AND.extra, rec)
  /\ MatchesFacet(w.distributionStatementMusicPlatforms,
                  rec.distributionStatementMusicPlatforms)
  /\ MatchesFacet(w.distributionStatementTerritories,
                  rec.distributionStatementTerritories)
  /\ (IsSome(w.createdAt) => rec.createdAt >= w.createdAt[1])

Filtered(s, w) == SelectSeq(s, LAMBDA rec : Matches(w, rec))

\* orderBy: { [column]: direction }, a stable insertion sort
Before(a, b, ob) ==
  IF ob.direction = "asc" THEN a[ob.column] < b[ob.column]
  ELSE a[ob.column] > b[ob.column]

RECURSIVE Insert(_, _, _)
Insert(sorted, rec, ob) ==
  IF sorted = <<>> THEN <<rec>>
  ELSE IF Before(rec, Head(sorted), ob) THEN <<rec>> \o sorted
  ELSE <<Head(sorted)>> \o Insert(Tail(sorted), rec, ob)

RECURSIVE Sorted(_, _)
Sorted(s, ob) ==
  IF s = <<>> THEN <<>>
  ELSE Insert(Sorted(SubSeq(s, 1, Len(s) - 1), ob), s[Len(s)], ob)

\* skip / take over an ordered sequence
SkipTake(s, skip, take) == SubSeq(s, skip + 1, Min(Len(s), skip + take))

\* prisma.distributionStatement.findMany(args)
FindMany(s, args) ==
  SkipTake(Sorted(Filtered(s, args.where), args.orderBy), args.skip, args.take)

\* prisma.distributionStatement.count(args)
Count(s, args) == Len(Filtered(s, args.where))

\* variant: the membership condition is missing from the lookup
FindTeamAnyMember(teamId, userId) ==
  LET hits == SelectSeq(Teams, LAMBDA t : t.id = teamId)
  IN IF hits = <<>> THEN None ELSE Some(Head(hits))

\* prisma.team.findFirstOrThrow: the team with that id and the user as member
FindTeam(teamId, userId) ==
  LET hits == SelectSeq(Teams, LAMBDA t : t.id = teamId /\ userId \in t.members)
  IN IF hits = <<>> THEN None ELSE Some(Head(hits))

(* ---------------------------------------------------------------------- *)
(* The arguments and the result assembled by findDistribution             *)
(* ---------------------------------------------------------------------- *)
Page(r) == Default(r.page, DefaultPage)
PerPage(r) == Default(r.perPage, DefaultPerPage)

OrderBy(r) ==
  [ column    |-> IF IsSome(r.orderBy) THEN r.orderBy[1].column ELSE "id",
    direction |-> IF IsSome(r.orderBy) THEN r.orderBy[1].direction ELSE "asc" ]

\* variant: the offset is taken from page instead of page - 1
SkipOffByOne(page, perPage) == Max(page, 0) * perPage

Skip(page, perPage) == Max(page - 1, 0) * perPage

FindManyArgs(r, w) ==
  [where |-> w, skip |-> Skip(Page(r), PerPage(r)), take |-> PerPage(r),
   orderBy |-> OrderBy(r)]

\* variant: the count is issued on the clause without its createdAt bound
CountArgsNoPeriod(r, w) == [where |-> [w EXCEPT !.createdAt = None]]

CountArgs(r, w) == [where |-> w]

\* variant: Math.floor in place of Math.ceil
TotalPagesFloor(count, perPage) == count \div perPage

\* Math.ceil(count / perPage), perPage > 0
TotalPages(count, perPage) == (count + perPage - 1) \div perPage

CurrentPage(page) == Max(page, 1)

ResultPage(r, data, count) ==
  [ data |-> data, count |-> count, currentPage |-> CurrentPage(Page(r)),
    perPage |-> PerPage(r), totalPages |-> TotalPages(count, PerPage(r)) ]

(* ---------------------------------------------------------------------- *)
(* The call, step by step                                                 *)
(* ---------------------------------------------------------------------- *)
Init ==
  /\ store \in Stores
  /\ req = None
  /\ pc = "idle"
  /\ team = None
  /\ now = 0
  /\ fetchArgs = None
  /\ countArgs = None
  /\ fetchSt = "idle"
  /\ countSt = "idle"
  /\ fetchIssued = 0
  /\ countIssued = 0
  /\ fetchVal = None
  /\ countVal = None
  /\ settled = ""
  /\ result = None
  /\ err = ""

\* findDistribution(options) is called
Invoke ==
  /\ pc = "idle"
  /\ \E userId \in UserIds, teamId \in TeamIdArgs, page \in Pages,
        perPage \in PerPages, where \in WhereArgs, orderBy \in OrderBys,
        period \in Periods, platformIds \in PlatformIdArgs,
        territoryIds \in TerritoryIdArgs, query \in Queries :
       req' = [ userId |-> userId, teamId |-> teamId, page |-> page,
                perPage |-> perPage, where |-> where, orderBy |-> orderBy,
                period |-> period, platformIds |-> platformIds,
                territoryIds |-> territoryIds, query |-> query ]
  /\ pc' = IF IsSome(req'.teamId) THEN "lookup" ELSE "compose"
  /\ UNCHANGED <<store, team, now, fetchArgs, countArgs, fetchSt,
                 countSt, fetchIssued, countIssued, fetchVal, countVal,
                 settled, result, err>>

\* `if (teamId !== undefined) team = await prisma.team.findFirstOrThrow(...)`
TeamLookup ==
  /\ pc = "lookup"
  /\ LET t == FindTeam(req.teamId[1], req.userId) IN
       IF IsSome(t)
         THEN /\ team' = t
              /\ pc' = "compose"
              /\ err' = err
         ELSE /\ team' = team
              /\ pc' = "failed"
              /\ err' = "NotFoundError"
  /\ UNCHANGED <<store, req, now, fetchArgs, countArgs, fetchSt,
                 countSt, fetchIssued, countIssued, fetchVal, countVal,
                 settled, result>>

\* the where clause is composed and both storage operations are handed to
\* Promise.all; a NaN day count makes DateTime.minus throw
Compose ==
  /\ pc = "compose"
  /\ \E clock \in (IF IsSome(DaysAgo(req.period)) THEN Nows ELSE {now}) :
       /\ now' = clock
       /\ IF DaysAgo(req.period) = Some(None)
            THEN /\ pc' = "failed"
                 /\ err' = "InvalidArgumentError"
                 /\ UNCHANGED <<fetchArgs, countArgs, fetchSt,
                                countSt, fetchIssued, countIssued>>
            ELSE /\ LET whereClause == WhereClause(req, team, clock) IN
                      /\ fetchArgs' = Some(FindManyArgs(req, whereClause))
                      /\ countArgs' = Some(CountArgs(req, whereClause))
                 /\ fetchSt' = "pending"
                 /\ countSt' = "pending"
                 /\ fetchIssued' = fetchIssued + 1
                 /\ countIssued' = countIssued + 1
                 /\ pc' = "awaiting"
                 /\ err' = err
  /\ UNCHANGED <<store, req, team, fetchVal, countVal, settled, result>>

\* the findMany promise fulfils
FetchResolve ==
  /\ fetchSt = "pending"
  /\ fetchSt' = "fulfilled"
  /\ fetchVal' = Some(FindMany(store, fetchArgs[1]))
  /\ UNCHANGED <<store, req, pc, team, now, fetchArgs, countArgs,
                 countSt, fetchIssued, countIssued, countVal, settled, result,
                 err>>

\* the findMany promise rejects; Promise.all keeps the first rejection
FetchReject ==
  /\ fetchSt = "pending"
  /\ fetchSt' = "rejected"
  /\ settled' = IF settled = "" THEN "FetchFailure" ELSE settled
  /\ UNCHANGED <<store, req, pc, team, now, fetchArgs, countArgs,
                 countSt, fetchIssued, countIssued, fetchVal, countVal, result,
                 err>>

\* the count promise fulfils
CountResolve ==
  /\ countSt = "pending"
  /\ countSt' = "fulfilled"
  /\ countVal' = Some(Count(store, countArgs[1]))
  /\ UNCHANGED <<store, req, pc, team, now, fetchArgs, countArgs,
                 fetchSt, fetchIssued, countIssued, fetchVal, settled, result,
                 err>>

\* the count promise rejects
CountReject ==
  /\ countSt = "pending"
  /\ countSt' = "rejected"
  /\ settled' = IF settled = "" THEN "CountFailure" ELSE settled
  /\ UNCHANGED <<store, req, pc, team, now, fetchArgs, countArgs,
                 fetchSt, fetchIssued, countIssued, fetchVal, countVal, result,
                 err>>

\* variant: the result page is assembled as soon as the fetch has fulfilled
ReturnPartial ==
  /\ pc = "awaiting"
  /\ fetchSt = "fulfilled"
  /\ result' = Some(ResultPage(req, fetchVal[1], Default(countVal, 0)))
  /\ pc' = "returned"
  /\ UNCHANGED <<store, req, team, now, fetchArgs, countArgs,
                 fetchSt, countSt, fetchIssued, countIssued, fetchVal, countVal,
                 settled, err>>

\* Promise.all fulfils with [data, count]; the result page is returned
Return ==
  /\ pc = "awaiting"
  /\ fetchSt = "fulfilled"
  /\ countSt = "fulfilled"
  /\ result' = Some(ResultPage(req, fetchVal[1], countVal[1]))
  /\ pc' = "returned"
  /\ UNCHANGED <<store, req, team, now, fetchArgs, countArgs,
                 fetchSt, countSt, fetchIssued, countIssued, fetchVal, countVal,
                 settled, err>>

\* Promise.all rejects with the first rejection; the await throws
Throw ==
  /\ pc = "awaiting"
  /\ settled # ""
  /\ err' = settled
  /\ pc' = "failed"
  /\ UNCHANGED <<store, req, team, now, fetchArgs, countArgs,
                 fetchSt, countSt, fetchIssued, countIssued, fetchVal, countVal,
                 settled, result>>

Next ==
  \/ Invoke
  \/ TeamLookup
  \/ Compose
  \/ FetchResolve
  \/ FetchReject
  \/ CountResolve
  \/ CountReject
  \/ Return
  \/ Throw

Spec == Init /\ [][Next]_vars

(* ---------------------------------------------------------------------- *)
(* Properties                                                             *)
(* ---------------------------------------------------------------------- *)
Returned == pc = "returned"
Data == result[1].data
StoreRecs == { store[i] : i \in DOMAIN store }
NumberOf(P(_)) == Cardinality({ i \in DOMAIN store : P(store[i]) })
NonEmptyIds(ids) == IsSome(ids) /\ ids[1] # <<>>

\* C1: a request without teamId returns only records owned by the requesting
\* user and carrying no team, whatever the other filters are.
C1_PersonalScope ==
  (Returned /\ req.teamId = None) =>
    \A i \in DOMAIN Data :
      Data[i].userId = req.userId /\ Data[i].teamId = None

C1_Witness ==
  /\ Returned /\ req.teamId = None /\ Len(Data) > 0
  /\ IsSome(req.query) /\ NonEmptyIds(req.platformIds) /\ IsSome(req.where)
  /\ \E rec \in StoreRecs : rec.userId = req.userId /\ rec.teamId # None

\* C2: a request for a team the user is a member of returns only records of
\* that team, or, only when the team has a team email, records whose owning
\* user has that email.
C2_TeamScope ==
  (Returned /\ IsSome(req.teamId)) =>
    /\ IsSome(team)
    /\ team[1].id = req.teamId[1]
    /\ req.userId \in team[1].members
    /\ \A i \in DOMAIN Data :
         \/ Data[i].teamId = Some(team[1].id)
         \/ /\ IsSome(team[1].teamEmail)
            /\ Data[i].user.email = team[1].teamEmail[1].email

C2_Witness ==
  /\ Returned /\ IsSome(req.teamId) /\ IsSome(team[1].teamEmail)
  /\ \E i \in DOMAIN Data : Data[i].teamId # Some(team[1].id)
  /\ \E i \in DOMAIN Data : Data[i].teamId = Some(team[1].id)

\* C3: a teamId for which no team has the user as a member fails the call
\* with the not-found error: no result page, no fetch, no count.
NoTeamForPrincipal ==
  /\ pc # "idle"
  /\ IsSome(req.teamId)
  /\ ~ \E i \in DOMAIN Teams :
        Teams[i].id = req.teamId[1] /\ req.userId \in Teams[i].members

C3_NonMemberFails ==
  NoTeamForPrincipal =>
    /\ pc \in {"lookup", "failed"}
    /\ (pc = "failed" => err = "NotFoundError")
    /\ result = None
    /\ team = None
    /\ fetchIssued = 0 /\ countIssued = 0
    /\ fetchSt = "idle" /\ countSt = "idle"

C3_Witness ==
  /\ NoTeamForPrincipal /\ pc = "failed" /\ err = "NotFoundError"
  /\ \E rec \in StoreRecs : rec.userId = req.userId /\ rec.teamId = None

\* C4: the returned count is the number of stored records that satisfy the
\* predicate composed from the principal and the filters, which is the
\* predicate the data is selected by, and does not depend on page or perPage.
C4_CountOfFilter ==
  Returned =>
    /\ LET w == WhereClause(req, team, now) IN
         result[1].count = NumberOf(LAMBDA rec : Matches(w, rec))
    /\ fetchArgs[1].where = countArgs[1].where
    /\ \A i \in DOMAIN Data : Matches(countArgs[1].where, Data[i])
    /\ LET r0 == [req EXCEPT !.page = None, !.perPage = None] IN
         result[1].count = Count(store, CountArgs(r0, WhereClause(r0, team, now)))

C4_Witness ==
  /\ Returned /\ result[1].count > Len(Data) /\ Len(Data) > 0
  /\ result[1].count < Len(store)
  /\ IsSome(fetchArgs[1].where.createdAt)

\* C5: totalPages is ceil(count / perPage), data holds at most perPage
\* records, and a page beyond totalPages has empty data with count and
\* totalPages still those of the filter.
C5_PageMath ==
  Returned =>
    LET pp == PerPage(req)
        n  == NumberOf(LAMBDA rec : Matches(countArgs[1].where, rec))
        tp == result[1].totalPages
    IN /\ result[1].count = n
       /\ tp * pp >= n
       /\ (tp - 1) * pp < n
       /\ tp >= 0
       /\ Len(Data) <= pp
       /\ (Page(req) > tp => Data = <<>>)

C5_Witness ==
  /\ Returned /\ Page(req) > result[1].totalPages /\ result[1].count > 0
  /\ result[1].count % PerPage(req) # 0

\* C6: the data starts after max(page-1, 0) * perPage matching records,
\* currentPage is max(page, 1), and every page <= 1 gives the data of page 1.
C6_SkipAndClamp ==
  Returned =>
    LET pp  == PerPage(req)
        p   == Page(req)
        all == Sorted(Filtered(store, fetchArgs[1].where), OrderBy(req))
        k   == IF p - 1 > 0 THEN (p - 1) * pp ELSE 0
        n   == IF Len(all) - k < pp THEN (IF Len(all) - k < 0 THEN 0 ELSE Len(all) - k) ELSE pp
    IN /\ Data = [i \in 1..n |-> all[k + i]]
       /\ result[1].currentPage = (IF p >= 1 THEN p ELSE 1)
       /\ (p <= 1 =>
             /\ result[1].currentPage = 1
             /\ Data = [i \in 1..(IF Len(all) < pp THEN Len(all) ELSE pp) |-> all[i]])

C6_Witness ==
  /\ Returned /\ Page(req) < 0 /\ Len(Data) > 0
  /\ result[1].count > Len(Data) /\ result[1].currentPage = 1

\* C7: a period outside '', '7d', '14d', '30d' is refused before the record
\* fetch and the record count are issued, and gives no result page.
C7_PeriodEnumEnforced ==
  (pc # "idle" /\ IsSome(req.period) /\ req.period[1] \notin PeriodEnum) =>
    /\ fetchIssued = 0 /\ countIssued = 0
    /\ result = None

\* C8: with period 7d, 14d or 30d the records kept are those created at or
\* after the start of the day lying N days before the time of the call; with
\* an empty or absent period the creation time is not constrained.
PeriodDays ==
  CASE req.period = Some(<<"7", "d">>) -> Some(7)
    [] req.period = Some(<<"1", "4", "d">>) -> Some(14)
    [] req.period = Some(<<"3", "0", "d">>) -> Some(30)
    [] OTHER -> None

DayStart(t) == (t \div 24) * 24

MatchesButCreatedAt(rec) ==
  Matches([fetchArgs[1].where EXCEPT !.createdAt = None], rec)

C8_PeriodLowerBound ==
  (Returned /\ (req.period = None \/ req.period[1] \in PeriodEnum)) =>
    IF IsSome(PeriodDays)
      THEN LET bound == DayStart(now - PeriodDays[1] * 24) IN
           /\ \A i \in DOMAIN Data : Data[i].createdAt >= bound
           /\ result[1].count =
                NumberOf(LAMBDA rec : MatchesButCreatedAt(rec) /\ rec.createdAt >= bound)
           /\ fetchArgs[1].where.createdAt = Some(bound)
           /\ countArgs[1].where.createdAt = Some(bound)
      ELSE /\ result[1].count = NumberOf(MatchesButCreatedAt)
           /\ fetchArgs[1].where.createdAt = None

C8_Witness ==
  /\ Returned /\ req.period = Some(<<"7", "d">>) /\ Len(Data) > 0
  /\ \E rec \in StoreRecs :
       MatchesButCreatedAt(rec) /\ rec.createdAt < DayStart(now - 7 * 24)
  /\ \E i \in DOMAIN Data : Data[i].createdAt < now - 7 * 24

\* C9: a non-empty platformIds (territoryIds) keeps exactly the records that
\* satisfy the other predicates and have an association with an id of the
\* set; an absent or empty set constrains nothing.
HasFacet(ids, assoc) ==
  NonEmptyIds(ids) => \E j \in DOMAIN ids[1] : ids[1][j] \in assoc

MatchesButFacets(rec) ==
  Matches([fetchArgs[1].where EXCEPT !.distributionStatementMusicPlatforms = None,
                                 !.distributionStatementTerritories = None], rec)

FacetsOK(rec) ==
  /\ HasFacet(req.platformIds, rec.distributionStatementMusicPlatforms)
  /\ HasFacet(req.territoryIds, rec.distributionStatementTerritories)

C9_FacetFilters ==
  Returned =>
    /\ \A i \in DOMAIN Data : FacetsOK(Data[i]) /\ MatchesButFacets(Data[i])
    /\ \A i \in DOMAIN Data : MatchesTenant(TenantFilter(req.userId, team), Data[i])
    /\ result[1].count = NumberOf(LAMBDA rec : MatchesButFacets(rec) /\ FacetsOK(rec))

C9_Witness ==
  /\ Returned /\ NonEmptyIds(req.platformIds) /\ NonEmptyIds(req.territoryIds)
  /\ Len(Data) > 0
  /\ \E rec \in StoreRecs :
       /\ MatchesButFacets(rec)
       /\ rec.distributionStatementMusicPlatforms = {}
  /\ \E rec \in StoreRecs :
       /\ MatchesButFacets(rec)
       /\ rec.distributionStatementMusicPlatforms # {}
       /\ ~ FacetsOK(rec)

\* C10: the fetch and the count are dispatched together on the same where
\* clause, each may complete while the other is pending, the result page is
\* returned only when both have fulfilled, and a rejection of either fails
\* the call with that rejection, without a retry and without a result page.
C10_ParallelJoin ==
  /\ fetchIssued = countIssued
  /\ fetchIssued <= 1
  /\ (fetchIssued = 1 => fetchArgs[1].where = countArgs[1].where)
  /\ (fetchSt = "idle") = (countSt = "idle")
  /\ (Returned =>
        /\ fetchSt = "fulfilled" /\ countSt = "fulfilled"
        /\ Data = fetchVal[1] /\ result[1].count = countVal[1]
        /\ err = "")
  /\ ((fetchSt = "rejected" \/ countSt = "rejected") =>
        /\ result = None
        /\ pc \in {"awaiting", "failed"}
        /\ settled # "")
  /\ ((pc = "failed" /\ fetchIssued = 1) =>
        /\ err \in {"FetchFailure", "CountFailure"}
        /\ (err = "FetchFailure" => fetchSt = "rejected")
        /\ (err = "CountFailure" => countSt = "rejected"))

C10_Witness ==
  /\ pc = "failed" /\ err = "CountFailure"
  /\ fetchSt = "fulfilled" /\ Len(fetchVal[1]) > 0
  /\ result = None

====
